---- MODULE Spec2Model ----
(***************************************************************************)
(* Model of initial_test.py: KoreanMorphemeAnalyzer,                       *)
(* KoreanChoseongExtractor and OpenSearchWordIndexer.                      *)
(*                                                                         *)
(* Characters are Unicode code points (integers); a Python str is a        *)
(* sequence of code points.  Three specifications share the variables:     *)
(*   SpecFn   - the pure text functions applied to bounded inputs          *)
(*   SpecCtor - KoreanMorphemeAnalyzer.__init__                            *)
(*   Spec     - process_words_from_source_index against the search client  *)
(***************************************************************************)
EXTENDS Integers, Sequences, FiniteSets, TLC

(***************************************************************************)
(* Bounds                                                                  *)
(***************************************************************************)
MaxLen == 3
MaxMorphs == 1

(***************************************************************************)
(* Program constants                                                       *)
(***************************************************************************)
HangulFirst == 44032
HangulLast == 55203
ChoseongSpan == 588
MinWordLen == 2
MaxEnglishLen == 50

choseong_list ==
    << 12593, 12594, 12596, 12599, 12600, 12601, 12609, 12610, 12611, 12613,
       12614, 12615, 12616, 12617, 12618, 12619, 12620, 12621, 12622 >>

(***************************************************************************)
(* Character classes of Python's str methods and of the re module, on the  *)
(* code points the inputs below are drawn from.                            *)
(***************************************************************************)
IsAsciiLetter(c) == (c >= 65 /\ c <= 90) \/ (c >= 97 /\ c <= 122)

IsAscii(c) == c >= 0 /\ c <= 127

IsHangul(c) == c >= HangulFirst /\ c <= HangulLast

IsDigit(c) == c >= 48 /\ c <= 57

\* str.isalpha on one character: ASCII letters, Latin-1 letters, Hangul
\* compatibility jamo and Hangul syllables are letters
IsAlphaChar(c) ==
    \/ IsAsciiLetter(c)
    \/ (c >= 192 /\ c <= 255 /\ c # 215 /\ c # 247)
    \/ (c >= 12593 /\ c <= 12686)
    \/ IsHangul(c)

\* \w of a str pattern: alphanumerics and the underscore
IsWordChar(c) == IsAlphaChar(c) \/ IsDigit(c) \/ c = 95

\* str.isspace on one character (what str.strip removes)
IsSpace(c) == c \in {9, 10, 11, 12, 13, 28, 29, 30, 31, 32, 133, 160}

LowerChar(c) == IF c >= 65 /\ c <= 90 THEN c + 32 ELSE c

\* str.lower
Lower(s) == [i \in 1..Len(s) |-> LowerChar(s[i])]

\* str.isalpha
IsAlpha(s) == Len(s) > 0 /\ \A i \in 1..Len(s) : IsAlphaChar(s[i])

\* str.isascii
IsAsciiStr(s) == \A i \in 1..Len(s) : IsAscii(s[i])

\* not sentence.strip(): nothing is left once white space is stripped
StripIsEmpty(s) == \A i \in 1..Len(s) : IsSpace(s[i])

ToSet(s) == {s[i] : i \in 1..Len(s)}

(***************************************************************************)
(* KoreanChoseongExtractor                                                 *)
(***************************************************************************)
\* one iteration of the loop body of extract_choseong
ChoseongOfChar_skew(c) ==
    IF c >= HangulFirst /\ c <= HangulLast
    THEN IF HangulFirst <= c /\ c <= HangulLast
         THEN LET idx == (c - HangulFirst) \div (ChoseongSpan + 1)
              IN  <<choseong_list[idx + 1]>>
         ELSE <<c>>
    ELSE <<c>>

ChoseongOfChar(c) ==
    IF c >= HangulFirst /\ c <= HangulLast
    THEN IF HangulFirst <= c /\ c <= HangulLast
         THEN LET choseong_code == (c - HangulFirst) \div ChoseongSpan
              IN  <<choseong_list[choseong_code + 1]>>
         ELSE <<c>>
    ELSE <<c>>

RECURSIVE ChoseongLoop(_, _)
ChoseongLoop(text, choseong) ==
    IF text = <<>> THEN choseong
    ELSE ChoseongLoop(Tail(text), choseong \o ChoseongOfChar(Head(text)))

extract_choseong(text) ==
    IF Len(text) = 0 THEN <<>>
    ELSE IF IsAlpha(text) /\ IsAsciiStr(text) THEN Lower(text)
    ELSE ChoseongLoop(text, <<>>)

is_korean_word(text) ==
    IF Len(text) = 0 THEN FALSE
    ELSE \E i \in 1..Len(text) : IsHangul(text[i])

(***************************************************************************)
(* KoreanMorphemeAnalyzer: validators                                      *)
(***************************************************************************)
_is_valid_korean_word_anylen(word) ==
    IF Len(word) = 0 THEN FALSE
    ELSE IF ~(\E i \in 1..Len(word) : IsHangul(word[i])) THEN FALSE
    ELSE IF \A i \in 1..Len(word) :
                ~IsHangul(word[i]) /\ ~IsAsciiLetter(word[i]) THEN FALSE
    ELSE TRUE

_is_valid_korean_word(word) ==
    IF Len(word) = 0 \/ Len(word) < MinWordLen THEN FALSE
    ELSE IF ~(\E i \in 1..Len(word) : IsHangul(word[i])) THEN FALSE
    ELSE IF \A i \in 1..Len(word) :
                ~IsHangul(word[i]) /\ ~IsAsciiLetter(word[i]) THEN FALSE
    ELSE TRUE

_is_valid_english_word(word) ==
    IF Len(word) = 0 \/ Len(word) < MinWordLen THEN FALSE
    ELSE IF ~IsAlpha(word) THEN FALSE
    ELSE IF Len(word) > MaxEnglishLen THEN FALSE
    ELSE TRUE

(***************************************************************************)
(* KoreanMorphemeAnalyzer: the pattern \b[a-zA-Z]{2,}\b and findall        *)
(***************************************************************************)
\* s[p] is a word character; positions outside the string are not
WordAt(s, p) == p >= 1 /\ p <= Len(s) /\ IsWordChar(s[p])

\* \b between s[p-1] and s[p]
WordBoundary(s, p) == WordAt(s, p - 1) # WordAt(s, p)

\* the longest run of [a-zA-Z] that starts at i
RECURSIVE LetterRun(_, _)
LetterRun(s, i) ==
    IF i <= Len(s) /\ IsAsciiLetter(s[i]) THEN 1 + LetterRun(s, i + 1) ELSE 0

\* the length matched at i: the greedy quantifier takes the longest run and
\* backtracks until the closing \b holds; 0 when there is no match at i
MatchLenAt_noboundary(s, i) ==
    LET run == LetterRun(s, i)
    IN  IF run >= 2 THEN run ELSE 0

MatchLenAt(s, i) ==
    LET run == LetterRun(s, i)
        ends == {k \in 2..run : WordBoundary(s, i + k)}
    IN  IF WordBoundary(s, i) /\ ends # {}
        THEN CHOOSE k \in ends : \A j \in ends : j <= k
        ELSE 0

RECURSIVE FindAll(_, _)
FindAll(s, i) ==
    IF i > Len(s) THEN <<>>
    ELSE LET n == MatchLenAt(s, i)
         IN  IF n > 0
             THEN <<SubSeq(s, i, i + n - 1)>> \o FindAll(s, i + n)
             ELSE FindAll(s, i + 1)

RECURSIVE FilterEnglish(_)
FilterEnglish(english_words) ==
    IF english_words = <<>> THEN <<>>
    ELSE LET word == Head(english_words)
         IN  (IF _is_valid_english_word(word) THEN <<Lower(word)>> ELSE <<>>)
             \o FilterEnglish(Tail(english_words))

_extract_english_words(sentence) == FilterEnglish(FindAll(sentence, 1))

(***************************************************************************)
(* KoreanMorphemeAnalyzer: tagging and the merge                           *)
(*                                                                         *)
(* The analyzer is an external library.  One call of analyzer.pos is a     *)
(* record [ok, morphs]: ok = FALSE when the call raises, otherwise morphs  *)
(* is the sequence of <<word, pos>> pairs it returns.  pos_filter is a     *)
(* record [none, tags]: none = TRUE stands for pos_filter=None.            *)
(***************************************************************************)
RECURSIVE FilterMorphs(_, _)
FilterMorphs(morphs, pos_filter) ==
    IF morphs = <<>> THEN <<>>
    ELSE LET word == Head(morphs)[1]
             pos  == Head(morphs)[2]
         IN  (IF (pos_filter.none \/ pos \in pos_filter.tags)
                 /\ _is_valid_korean_word(word)
              THEN <<word>> ELSE <<>>)
             \o FilterMorphs(Tail(morphs), pos_filter)

\* [raised, words]: the except clause turns a failed call into []
_extract_korean_words_reraise(tagged, pos_filter) ==
    IF tagged.ok
    THEN [raised |-> FALSE, words |-> FilterMorphs(tagged.morphs, pos_filter)]
    ELSE [raised |-> TRUE, words |-> <<>>]

_extract_korean_words(tagged, pos_filter) ==
    IF tagged.ok
    THEN [raised |-> FALSE, words |-> FilterMorphs(tagged.morphs, pos_filter)]
    ELSE [raised |-> FALSE, words |-> <<>>]

\* the set behind list(set(words)); the list order is the caller's choice
extract_words_from_sentence(sentence, pos_filter, tagged) ==
    IF Len(sentence) = 0 \/ StripIsEmpty(sentence) THEN {}
    ELSE LET english_words == _extract_english_words(sentence)
             korean == _extract_korean_words(tagged, pos_filter)
         IN  IF korean.raised THEN {}
             ELSE ToSet(english_words \o korean.words)

(***************************************************************************)
(* Inputs                                                                  *)
(***************************************************************************)
\* 'a' 'B' ' ' '1' '_' '.' U+AC00 U+AE4C(first syllable of the 2nd initial)
\* U+D7A3 U+D7A4(first code point after the syllables)
Alphabet == {97, 66, 32, 49, 95, 46, 44032, 44620, 55203, 55204}

StringsUpTo(n) == UNION {[1..k -> Alphabet] : k \in 0..n}

\* 50 and 51 letters: the two sides of the length limit of English words
Letters(n) == [i \in 1..n |-> 97]

\* "ab 가나", "가나 하다", "ab" and two blanks: the sentences of the documents
SAbGana == <<97, 98, 32, 44032, 45208>>
SGanaHada == <<44032, 45208, 32, 54616, 45796>>
SAb == <<97, 98>>
SBlank == <<32, 32>>

\* "ab aB1 ab가 aB": a run twice, next to a digit and next to a syllable
SMixed == <<97, 98, 32, 97, 66, 49, 32, 97, 98, 44032, 32, 97, 66>>

Sentences ==
    StringsUpTo(MaxLen)
        \cup {Letters(MaxEnglishLen), Letters(MaxEnglishLen + 1), SAbGana, SGanaHada,
              SMixed}

\* surface forms an analyzer may return
Tokens == { <<44032, 45208>>, <<44032>>, <<97, 44032>>, <<49, 50>>, <<97, 98>> }

Tags == {"Noun", "Josa"}

MorphSeqs == UNION {[1..k -> Tokens \X Tags] : k \in 0..MaxMorphs}

TagFailure == [ok |-> FALSE, morphs |-> <<>>]

TagOutcomes == {TagFailure} \cup {[ok |-> TRUE, morphs |-> m] : m \in MorphSeqs}

NoFilter == [none |-> TRUE, tags |-> {}]

PosFilters == {NoFilter, [none |-> FALSE, tags |-> {"Noun"}], [none |-> FALSE, tags |-> {}]}

(***************************************************************************)
(* State                                                                   *)
(***************************************************************************)
VARIABLES
    \* the text functions
    fn_pc, sentence, tagged, choseong, english_words, extracted,
    \* KoreanMorphemeAnalyzer.__init__
    ctor_pc, analyzer_type, analyzer, installable, log,
    \* OpenSearchWordIndexer
    pc, corpus, sentence_fields, pos_filter, tagger,
    scroll_id, hits, fetched, words, calls, bulk_data, target, run, prev

fn_vars == <<fn_pc, sentence, tagged, choseong, english_words, extracted>>

ctor_vars == <<ctor_pc, analyzer_type, analyzer, installable, log>>

run_vars == <<pc, corpus, sentence_fields, tagger,
              scroll_id, hits, fetched, words, calls, bulk_data, target, run, prev>>

vars == <<fn_vars, ctor_vars, run_vars, pos_filter>>

FnIdle ==
    /\ fn_pc = "off"
    /\ sentence = <<>>
    /\ tagged = TagFailure
    /\ choseong = <<>>
    /\ english_words = <<>>
    /\ extracted = {}

CtorIdle ==
    /\ ctor_pc = "off"
    /\ analyzer_type = "okt"
    /\ analyzer = "okt"
    /\ installable = {}
    /\ log = <<>>

NoRun == [calls |-> <<>>, target |-> {}, ended |-> "none"]

RunIdle ==
    /\ pc = "off"
    /\ corpus = <<>>
    /\ sentence_fields = <<>>
    /\ tagger = <<>>
    /\ scroll_id = "none"
    /\ hits = <<>>
    /\ fetched = 0
    /\ words = <<>>
    /\ calls = <<>>
    /\ bulk_data = <<>>
    /\ target = {}
    /\ run = 0
    /\ prev = NoRun

(***************************************************************************)
(* SpecFn: the text functions on every bounded input                       *)
(***************************************************************************)
InitFn ==
    /\ fn_pc = "input"
    /\ sentence \in Sentences
    /\ pos_filter \in PosFilters
    /\ tagged = TagFailure
    /\ choseong = <<>>
    /\ english_words = <<>>
    /\ extracted = {}
    /\ CtorIdle
    /\ RunIdle

CallExtractChoseong ==
    /\ fn_pc = "input"
    /\ choseong' = extract_choseong(sentence)
    /\ fn_pc' = "choseong"
    /\ UNCHANGED <<sentence, tagged, english_words, extracted>>
    /\ UNCHANGED <<ctor_vars, run_vars, pos_filter>>

CallExtractEnglishWords ==
    /\ fn_pc = "input"
    /\ english_words' = _extract_english_words(sentence)
    /\ fn_pc' = "english"
    /\ UNCHANGED <<sentence, tagged, choseong, extracted>>
    /\ UNCHANGED <<ctor_vars, run_vars, pos_filter>>

CallExtractWords ==
    /\ fn_pc = "input"
    /\ \E t \in TagOutcomes :
        /\ tagged' = t
        /\ extracted' = extract_words_from_sentence(sentence, pos_filter, t)
    /\ fn_pc' = "words"
    /\ UNCHANGED <<sentence, choseong, english_words>>
    /\ UNCHANGED <<ctor_vars, run_vars, pos_filter>>

NextFn == CallExtractChoseong \/ CallExtractEnglishWords \/ CallExtractWords

SpecFn == InitFn /\ [][NextFn]_vars

(***************************************************************************)
(* SpecCtor: KoreanMorphemeAnalyzer.__init__                               *)
(*                                                                         *)
(* installable is the set of backends whose constructor succeeds on the    *)
(* machine (a backend needs its own native library or a JVM).              *)
(***************************************************************************)
Backends == {"okt", "komoran", "hannanum", "kkma", "mecab"}

AnalyzerTypes == Backends \cup {"twitter"}

\* [raised, analyzer, log]: the try block, then the except clause, whose own
\* Okt() call is outside any handler
_initialize_analyzer(type, usable) ==
    LET requested == IF type \in Backends THEN type ELSE "okt"
        warned == IF type \in Backends THEN <<>> ELSE <<"warning">>
    IN  IF requested \in usable
        THEN [raised |-> FALSE, analyzer |-> requested, log |-> warned]
        ELSE IF "okt" \in usable
        THEN [raised |-> FALSE, analyzer |-> "okt", log |-> warned \o <<"error">>]
        ELSE [raised |-> TRUE, analyzer |-> "none", log |-> warned \o <<"error">>]

InitCtor ==
    /\ ctor_pc = "new"
    /\ analyzer_type \in AnalyzerTypes
    /\ installable \in SUBSET Backends
    /\ analyzer = "none"
    /\ log = <<>>
    /\ FnIdle
    /\ pos_filter = NoFilter
    /\ RunIdle

Construct ==
    /\ ctor_pc = "new"
    /\ LET r == _initialize_analyzer(analyzer_type, installable)
       IN  /\ analyzer' = r.analyzer
           /\ log' = r.log
           /\ ctor_pc' = IF r.raised THEN "raised" ELSE "ready"
    /\ UNCHANGED <<analyzer_type, installable>>
    /\ UNCHANGED <<fn_vars, run_vars, pos_filter>>

NextCtor == Construct

SpecCtor == InitCtor /\ [][NextCtor]_vars

(***************************************************************************)
(* Spec: OpenSearchWordIndexer.process_words_from_source_index             *)
(*                                                                         *)
(* The source collection is a sequence of pages (the batches the scroll    *)
(* cursor hands out), a page a non-empty sequence of hits.  A hit is       *)
(* [has_source, source]; source maps a field name to [kind, text]:         *)
(*   "absent" the key is missing      "null"  a falsy value (None, "")     *)
(*   "str"    a non-empty string      "num"   a truthy non-string value    *)
(***************************************************************************)
MaxPages == 2
MaxHits == 1
MaxRuns == 2

Absent == [kind |-> "absent", text |-> <<>>]
Null == [kind |-> "null", text |-> <<>>]
Num == [kind |-> "num", text |-> <<>>]
Str(s) == [kind |-> "str", text |-> s]

Doc(title, body) == [has_source |-> TRUE, source |-> [title |-> title, body |-> body]]

Docs ==
    { Doc(Str(SAbGana), Absent),
      Doc(Str(SGanaHada), Str(SAb)),
      Doc(Str(SBlank), Null),
      Doc(Num, Str(SGanaHada)),
      [has_source |-> FALSE, source |-> [title |-> Absent, body |-> Absent]] }

Pages == UNION {[1..k -> Docs] : k \in 1..MaxHits}

Corpora == UNION {[1..k -> Pages] : k \in 0..MaxPages}

FieldLists == { <<"title">>, <<"title", "body">> }

PipelineSentences == {SAbGana, SGanaHada, SAb, SBlank}

\* what analyzer.pos returns for the sentences of Docs
Lexicon(s) ==
    CASE s = SAbGana -> << <<SAb, "Alpha">>, <<<<44032, 45208>>, "Noun">> >>
      [] s = SGanaHada -> << <<<<44032, 45208>>, "Noun">>, <<<<54616, 45796>>, "Verb">> >>
      [] s = SAb -> << <<SAb, "Alpha">> >>
      [] OTHER -> <<>>

Taggers ==
    { [s \in PipelineSentences |-> [ok |-> TRUE, morphs |-> Lexicon(s)]],
      [s \in PipelineSentences |->
          IF s = SAbGana THEN TagFailure ELSE [ok |-> TRUE, morphs |-> Lexicon(s)]] }

RunFilters == {NoFilter, [none |-> FALSE, tags |-> {"Noun"}]}

\* every order list(set(...)) can produce
Perms(S) ==
    {p \in [1..Cardinality(S) -> S] : \A i, j \in 1..Cardinality(S) : i # j => p[i] # p[j]}

WordRecord(word) == [word |-> word, choseong |-> extract_choseong(word)]

\* if field in source and source[field]
Truthy(value) == value.kind \in {"str", "num"}

\* the records one sentence field appends to words, in every possible order
SentenceRecords(value, filter, tag) ==
    IF ~Truthy(value) THEN { <<>> }
    ELSE LET extracted_words ==
                 extract_words_from_sentence(value.text, filter, tag[value.text])
         IN  { [i \in 1..Len(p) |-> WordRecord(p[i])] : p \in Perms(extracted_words) }

RECURSIVE FieldRecords(_, _, _, _)
FieldRecords(source, fields, filter, tag) ==
    IF fields = <<>> THEN { <<>> }
    ELSE { a \o b : a \in SentenceRecords(source[Head(fields)], filter, tag),
                    b \in FieldRecords(source, Tail(fields), filter, tag) }

RECURSIVE PageRecords(_, _, _, _)
PageRecords(page, fields, filter, tag) ==
    IF page = <<>> THEN { <<>> }
    ELSE { a \o b : a \in FieldRecords(Head(page).source, fields, filter, tag),
                    b \in PageRecords(Tail(page), fields, filter, tag) }

\* hit['_source'] raises KeyError; sentence.strip() raises AttributeError on
\* a value that is not a string
HitRaises(hit, fields) ==
    \/ ~hit.has_source
    \/ \E i \in 1..Len(fields) : hit.source[fields[i]].kind = "num"

PageRaises(page, fields) == \E h \in 1..Len(page) : HitRaises(page[h], fields)

BulkItem_by_choseong(word_data) ==
    [_id |-> word_data.choseong, id |-> word_data.word,
     word |-> word_data.word, initial |-> word_data.choseong]

\* the action line and the document of one word, merged
BulkItem(word_data) ==
    [_id |-> word_data.word, id |-> word_data.word,
     word |-> word_data.word, initial |-> word_data.choseong]

BulkBody(word_list) == [i \in 1..Len(word_list) |-> BulkItem(word_list[i])]

\* the target collection after the index actions of body, those at the
\* positions in failed excepted: a document replaces the one with its _id
Index(collection, body, failed) ==
    LET written == {i \in 1..Len(body) : i \notin failed}
        last(i) == \A j \in written : body[j]._id = body[i]._id => j <= i
    IN  {d \in collection : \A i \in written : body[i]._id # d._id}
        \cup {body[i] : i \in {k \in written : last(k)}}

Init ==
    /\ pc = "idle"
    /\ corpus \in Corpora
    /\ sentence_fields \in FieldLists
    /\ pos_filter \in RunFilters
    /\ tagger \in Taggers
    /\ scroll_id = "none"
    /\ hits = <<>>
    /\ fetched = 0
    /\ words = <<>>
    /\ calls = <<>>
    /\ bulk_data = <<>>
    /\ target = {}
    /\ run = 0
    /\ prev = NoRun
    /\ FnIdle
    /\ CtorIdle

fixed_vars == <<corpus, sentence_fields, pos_filter, tagger, fn_vars, ctor_vars>>

\* the locals of a call that has ended
Ended ==
    /\ scroll_id' = "none"
    /\ hits' = <<>>
    /\ fetched' = 0
    /\ words' = <<>>
    /\ bulk_data' = <<>>

\* a caller invokes process_words_from_source_index
Start ==
    /\ pc \in {"idle", "done", "raised"}
    /\ run < MaxRuns
    /\ run' = run + 1
    /\ prev' = IF run = 0 THEN NoRun
               ELSE [calls |-> calls, target |-> target, ended |-> pc]
    /\ pc' = "search"
    /\ calls' = <<>>
    /\ UNCHANGED <<scroll_id, hits, fetched, words, bulk_data, target, fixed_vars>>

\* client.search returns the first page and the cursor
SearchOk ==
    /\ pc = "search"
    /\ calls' = Append(calls, "search")
    /\ scroll_id' = "cursor"
    /\ hits' = IF corpus = <<>> THEN <<>> ELSE corpus[1]
    /\ fetched' = IF corpus = <<>> THEN 0 ELSE 1
    /\ pc' = IF corpus = <<>> THEN "clear" ELSE "page"
    /\ UNCHANGED <<words, bulk_data, target, run, prev, fixed_vars>>

SearchFails_swallowed ==
    /\ pc = "search"
    /\ calls' = Append(calls, "search!")
    /\ pc' = "returned"
    /\ UNCHANGED <<scroll_id, hits, fetched, words, bulk_data, target, run, prev, fixed_vars>>

\* client.search raises: both except clauses log and re-raise
SearchFails ==
    /\ pc = "search"
    /\ calls' = Append(calls, "search!")
    /\ pc' = "raised"
    /\ Ended
    /\ UNCHANGED <<target, run, prev, fixed_vars>>

\* the for loop over the hits of the page
ProcessPage ==
    /\ pc = "page"
    /\ ~PageRaises(hits, sentence_fields)
    /\ \E recs \in PageRecords(hits, sentence_fields, pos_filter, tagger) :
           words' = words \o recs
    /\ pc' = "scroll"
    /\ UNCHANGED <<scroll_id, hits, fetched, calls, bulk_data, target, run, prev, fixed_vars>>

\* an exception in the for loop leaves through the outer except clause
ProcessPageRaises ==
    /\ pc = "page"
    /\ PageRaises(hits, sentence_fields)
    /\ pc' = "raised"
    /\ Ended
    /\ UNCHANGED <<calls, target, run, prev, fixed_vars>>

\* client.scroll returns the next page, or no hits after the last one
ScrollOk ==
    /\ pc = "scroll"
    /\ calls' = Append(calls, "scroll")
    /\ hits' = IF fetched < Len(corpus) THEN corpus[fetched + 1] ELSE <<>>
    /\ fetched' = IF fetched < Len(corpus) THEN fetched + 1 ELSE fetched
    /\ pc' = IF fetched < Len(corpus) THEN "page" ELSE "clear"
    /\ UNCHANGED <<scroll_id, words, bulk_data, target, run, prev, fixed_vars>>

ScrollFails_retry ==
    /\ pc = "scroll"
    /\ calls' = Append(calls, "scroll!")
    /\ pc' = "scroll"
    /\ UNCHANGED <<scroll_id, hits, fetched, words, bulk_data, target, run, prev, fixed_vars>>

\* client.scroll raises: logged, break
ScrollFails ==
    /\ pc = "scroll"
    /\ calls' = Append(calls, "scroll!")
    /\ pc' = "clear"
    /\ UNCHANGED <<scroll_id, hits, fetched, words, bulk_data, target, run, prev, fixed_vars>>

\* client.clear_scroll, whose failure is swallowed; then return words
ClearScroll ==
    /\ pc = "clear"
    /\ calls' = Append(calls, "clear_scroll")
    /\ pc' = "returned"
    /\ UNCHANGED <<scroll_id, hits, fetched, words, bulk_data, target, run, prev, fixed_vars>>

\* if words: ... else: nothing to index
NoWords ==
    /\ pc = "returned"
    /\ words = <<>>
    /\ pc' = "done"
    /\ Ended
    /\ UNCHANGED <<calls, target, run, prev, fixed_vars>>

CallBulk_unguarded ==
    /\ pc = "returned"
    /\ bulk_data' = BulkBody(words)
    /\ pc' = "bulk"
    /\ UNCHANGED <<scroll_id, hits, fetched, words, calls, target, run, prev, fixed_vars>>

\* index_words_to_auto_search builds bulk_data and hands it to client.bulk
CallBulk ==
    /\ pc = "returned"
    /\ words # <<>>
    /\ BulkBody(words) # <<>>
    /\ bulk_data' = BulkBody(words)
    /\ pc' = "bulk"
    /\ UNCHANGED <<scroll_id, hits, fetched, words, calls, target, run, prev, fixed_vars>>

\* client.bulk indexes every item
BulkOk ==
    /\ pc = "bulk"
    /\ calls' = Append(calls, "bulk")
    /\ target' = Index(target, bulk_data, {})
    /\ pc' = "done"
    /\ Ended
    /\ UNCHANGED <<run, prev, fixed_vars>>

\* client.bulk reports an error for one item; it is logged
BulkItemError ==
    /\ pc = "bulk"
    /\ calls' = Append(calls, "bulk?")
    /\ \E i \in 1..Len(bulk_data) : target' = Index(target, bulk_data, {i})
    /\ pc' = "done"
    /\ Ended
    /\ UNCHANGED <<run, prev, fixed_vars>>

\* client.bulk raises: logged and re-raised twice
BulkRaises ==
    /\ pc = "bulk"
    /\ calls' = Append(calls, "bulk!")
    /\ pc' = "raised"
    /\ Ended
    /\ UNCHANGED <<target, run, prev, fixed_vars>>

Next ==
    \/ Start
    \/ SearchOk
    \/ SearchFails
    \/ ProcessPage
    \/ ProcessPageRaises
    \/ ScrollOk
    \/ ScrollFails
    \/ ClearScroll
    \/ NoWords
    \/ CallBulk
    \/ BulkOk
    \/ BulkItemError
    \/ BulkRaises

Spec == Init /\ [][Next]_vars

(***************************************************************************)
(* Properties                                                              *)
(***************************************************************************)
Has(log_, entry) == \E i \in 1..Len(log_) : log_[i] = entry

FetchEntries == {"search", "search!", "scroll", "scroll!"}

BulkEntries == {"bulk", "bulk?", "bulk!"}

BulkIssued == pc = "bulk" \/ \E i \in 1..Len(calls) : calls[i] \in BulkEntries

Exited == pc \in {"returned", "bulk", "done", "raised"}

\* the pages the calls of one run have fetched
FetchedPages(log_) ==
    LET n == Cardinality({i \in 1..Len(log_) : log_[i] \in {"search", "scroll"}})
    IN  IF n < Len(corpus) THEN n ELSE Len(corpus)

\* the places of the first n pages whose sentence yields the word w
Occurrences(w, n) ==
    { x \in (1..n) \X (1..MaxHits) \X (1..Len(sentence_fields)) :
        /\ x[2] <= Len(corpus[x[1]])
        /\ LET value == corpus[x[1]][x[2]].source[sentence_fields[x[3]]]
           IN  /\ value.kind = "str"
               /\ w \in extract_words_from_sentence(value.text, pos_filter,
                                                    tagger[value.text]) }

CandidateWords == Tokens \cup {SAb, <<54616, 45796>>}

\* C1: the list of records a run submits to the target holds each word at
\* most once.
C1_SubmittedWordsUnique ==
    \A i, j \in 1..Len(bulk_data) :
        i # j => bulk_data[i].word # bulk_data[j].word

\* C2 as stated: in a run in which the search or a scroll call has failed, no
\* bulk write is issued and the run does not complete normally.
C2_NoWriteAfterAnyFetchFailure ==
    (Has(calls, "search!") \/ Has(calls, "scroll!"))
        => (~BulkIssued /\ pc # "done")

\* C2 amended: a failed initial search propagates to the caller and no bulk
\* write is issued in that run; after a failed scroll call the run raises only
\* if the bulk write itself raises.
C2_SearchFailureAborts ==
    /\ Has(calls, "search!") => (pc = "raised" /\ ~BulkIssued)
    /\ (Has(calls, "scroll!") /\ pc = "raised") => Has(calls, "bulk!")

C2_Witness == pc = "raised" /\ calls = <<"search!">> /\ run = 1

\* C3: once the search has handed out a cursor, clear_scroll has been called
\* by the time extract_words_from_index has exited, whatever the exit path.
C3_CursorReleasedOnExit ==
    (Has(calls, "search") /\ Exited) => Has(calls, "clear_scroll")

C5_EmittedWordsValid ==
    fn_pc = "words" =>
        /\ \A w \in extracted :
               /\ Len(w) >= 2
               /\ \/ \E i \in 1..Len(w) : w[i] >= 44032 /\ w[i] <= 55203
                  \/ (Len(w) <= 50 /\ \A i \in 1..Len(w) : IsAlphaChar(w[i]))
        /\ (\A i \in 1..Len(sentence) : IsSpace(sentence[i])) => extracted = {}

C5_Witness ==
    /\ fn_pc = "words"
    /\ \E w \in extracted : \E i \in 1..Len(w) : IsHangul(w[i])
    /\ \E w \in extracted : \A i \in 1..Len(w) : IsAsciiLetter(w[i])

\* C6: a run over an empty source collection neither raises nor reaches the
\* bulk write, and no bulk write is ever handed an empty list.
C6_NoEmptyBulk ==
    /\ pc = "bulk" => bulk_data # <<>>
    /\ (corpus = <<>> /\ Has(calls, "search")) => (pc # "raised" /\ ~BulkIssued)

C6_Witness ==
    /\ corpus = <<>>
    /\ pc = "done"
    /\ calls = <<"search", "clear_scroll">>

\* C7: a run that repeats the previous run (same pages fetched, every write
\* succeeding in both) leaves the target as the previous run left it: one
\* document per word, its id the word and its initial extract_choseong(word).
C7_RerunIdempotent ==
    (/\ run >= 2
     /\ pc = "done"
     /\ prev.ended = "done"
     /\ calls = prev.calls
     /\ ~Has(calls, "bulk?"))
        => /\ target = prev.target
           /\ \A d \in target :
                  /\ d._id = d.word
                  /\ d.id = d.word
                  /\ d.initial = extract_choseong(d.word)
           /\ \A d, e \in target : d.word = e.word => d = e
           /\ \A w \in CandidateWords :
                  Occurrences(w, FetchedPages(calls)) # {}
                      => \E d \in target : d.word = w

C7_Witness ==
    /\ run = 2
    /\ pc = "done"
    /\ prev.ended = "done"
    /\ calls = prev.calls
    /\ Has(calls, "bulk")
    /\ Cardinality(target) >= 2

\* C8: constructing the analyzer never raises; when the requested backend
\* cannot be initialised the default backend is installed and the failure is
\* logged.
C8_ConstructionNeverRaises ==
    /\ ctor_pc # "raised"
    /\ (ctor_pc = "ready" /\ analyzer_type \in Backends
            /\ analyzer_type \notin installable)
           => (analyzer = "okt" /\ Has(log, "error"))

\* C9: for a sentence that is not blank, when the tagging call fails
\* extract_words_from_sentence returns the set of the English tokens of
\* _extract_english_words, none of them Korean.
C9_TaggingFailureKeepsEnglish ==
    (/\ fn_pc = "words"
     /\ ~tagged.ok
     /\ \E i \in 1..Len(sentence) : ~IsSpace(sentence[i]))
        => /\ extracted = {_extract_english_words(sentence)[i] :
                              i \in 1..Len(_extract_english_words(sentence))}
           /\ \A w \in extracted : \A i \in 1..Len(w) : ~IsHangul(w[i])

C9_Witness ==
    /\ fn_pc = "words"
    /\ ~tagged.ok
    /\ extracted = {SAb}
    /\ \E i \in 1..Len(sentence) : IsHangul(sentence[i])

\* C10: after a failed scroll call no further search or scroll call is made,
\* the paging loop is left, and extract_words_from_index returns, without
\* raising, the records of exactly the pages fetched before the failure.
C10_ScrollFailureStopsPaging ==
    /\ \A i \in 1..Len(calls) :
           calls[i] = "scroll!" =>
               \A j \in (i + 1)..Len(calls) : calls[j] \notin FetchEntries
    /\ (calls # <<>> /\ calls[Len(calls)] = "scroll!") => pc = "clear"
    /\ (Has(calls, "scroll!") /\ pc = "raised") => Has(calls, "bulk!")
    /\ (Has(calls, "scroll!") /\ pc = "returned") =>
           /\ \A w \in CandidateWords :
                  Cardinality({i \in 1..Len(words) : words[i].word = w})
                      = Cardinality(Occurrences(w, fetched))
           /\ \A i \in 1..Len(words) :
                  /\ words[i].word \in CandidateWords
                  /\ words[i].choseong = extract_choseong(words[i].word)

C10_Witness ==
    /\ pc = "returned"
    /\ Has(calls, "scroll!")
    /\ fetched < Len(corpus)
    /\ Len(words) >= 2


\* the first positions of the maximal runs of ASCII letters of s
RunStarts(s) ==
    {i \in 1..Len(s) : IsAsciiLetter(s[i]) /\ (i = 1 \/ ~IsAsciiLetter(s[i - 1]))}

\* the last position of the run that starts at i
RunEnd(s, i) ==
    CHOOSE e \in i..Len(s) :
        /\ \A k \in i..e : IsAsciiLetter(s[k])
        /\ (e = Len(s) \/ ~IsAsciiLetter(s[e + 1]))

\* neither neighbour of the run at i is a letter of any script, a digit or
\* an underscore
Delimited(s, i) ==
    /\ (i = 1 \/ ~IsWordChar(s[i - 1]))
    /\ (RunEnd(s, i) = Len(s) \/ ~IsWordChar(s[RunEnd(s, i) + 1]))

\* the runs that start in starts, lower-cased, in order of occurrence
RunsInOrder(s, starts) ==
    LET nth(j) == CHOOSE i \in starts : Cardinality({k \in starts : k < i}) = j - 1
    IN  [j \in 1..Cardinality(starts) |->
            [k \in 1..(RunEnd(s, nth(j)) - nth(j) + 1) |->
                LET c == s[nth(j) + k - 1] IN IF c <= 90 THEN c + 32 ELSE c]]

SizedRuns(s) ==
    {i \in RunStarts(s) : RunEnd(s, i) - i + 1 >= 2 /\ RunEnd(s, i) - i + 1 <= 50}

====
